---- MODULE Spec2Model ----
(***************************************************************************)
(* Model of the RTR client unit of src/units/rtr.rs: the connection        *)
(* supervisor Tcp::run with its three cancellable operations (connect,     *)
(* update, retry_wait), the Target adapter and the TargetUpdate            *)
(* accumulator.  The gate (crate::comms), the payload builders             *)
(* (crate::payload) and the protocol engine (rpki_rtr::client::Client)     *)
(* are collaborators and are modelled at their interface.                  *)
(***************************************************************************)
EXTENDS Integers, Sequences, FiniteSets, TLC

\* ---------------------------------------------------------------- bounds
MaxConnects == 3     \* connect attempts of one run
MaxCycles == 2       \* update cycles started in one run
MaxEvents == 2       \* events recorded in the diff of one incremental cycle
MaxTime == 3         \* last instant of the discrete clock
MaxRetry == 2        \* largest configured retry interval

\* ------------------------------------------------------------ value sets
Payloads == {"A", "B"}
Announce == "Announce"
Withdraw == "Withdraw"
Actions == {Announce, Withdraw}
GateStatuses == {"Active", "Dormant"}
Healthy == "Healthy"
Stalled == "Stalled"
RetryValues == 0..MaxRetry
Sessions == {1}
NoState == 0
ErrKinds == {"io", "closed", "protocol"}

\* Option<T>: None is the empty tuple, Some(x) the one-element tuple.
None == <<>>
Some(x) == <<x>>

\* ------------------------------------------------------- Serial (u32)
\* A Serial is a 32 bit unsigned number, kept as two 16 bit halves.
HalfMod == 65536
SerialZero == [hi |-> 0, lo |-> 0]
SerialMax == [hi |-> HalfMod - 1, lo |-> HalfMod - 1]
SerialNearWrap == [hi |-> HalfMod - 1, lo |-> HalfMod - 2]

SerialAddTwo(s) ==
    IF s.lo + 2 >= HalfMod
      THEN [hi |-> (s.hi + 1) % HalfMod, lo |-> (s.lo + 2) % HalfMod]
      ELSE [hi |-> s.hi, lo |-> s.lo + 2]

\* self.serial.add(1): wrapping addition of one.
SerialAdd1(s) ==
    IF s.lo = HalfMod - 1
      THEN [hi |-> (s.hi + 1) % HalfMod, lo |-> 0]
      ELSE [hi |-> s.hi, lo |-> s.lo + 1]

\* b is the integer a + 1 (no wrap-around).
IsNext(a, b) ==
    \/ a.lo < HalfMod - 1 /\ b = [hi |-> a.hi, lo |-> a.lo + 1]
    \/ a.lo = HalfMod - 1 /\ a.hi < HalfMod - 1
         /\ b = [hi |-> a.hi + 1, lo |-> 0]

\* ------------------------------------------------- payload set builders
SetInsert(set, payload) ==
    IF payload \in set
      THEN [ok |-> FALSE, set |-> set]
      ELSE [ok |-> TRUE, set |-> set \cup {payload}]

SetRemove(set, payload) ==
    IF payload \in set
      THEN [ok |-> TRUE, set |-> set \ {payload}]
      ELSE [ok |-> FALSE, set |-> set]

SetFinalize(set) ==
    set

\* The diff builder may refuse an item whose payload it already holds.
DiffMayRefuse(diff, payload) ==
    \E i \in 1..Len(diff) : diff[i].payload = payload

DiffPush(diff, payload, action, refuse) ==
    IF refuse
      THEN [ok |-> FALSE, diff |-> diff]
      ELSE [ok |-> TRUE,
            diff |-> Append(diff, [action |-> action, payload |-> payload])]

DiffIsEmpty(diff) ==
    Len(diff) = 0

DiffFinalize(diff) ==
    diff

\* ------------------------------------------------------------- Target
\* Target::start
start(current, reset) ==
    IF reset
      THEN [set |-> {}, diff |-> None]
      ELSE [set |-> current, diff |-> Some(<<>>)]

\* ------------------------------------------------------- TargetUpdate
NoUpdate == [set |-> {}, diff |-> None]

NeverEmpty(update) ==
    FALSE

EmptyWhenNoRecords(update) ==
    IF update.diff # None
      THEN DiffIsEmpty(update.diff[1])
      ELSE update.set = {}

EmptyWhenCancelled(update) ==
    /\ update.diff # None
    /\ \A p \in Payloads :
         Cardinality({i \in 1..Len(update.diff[1]) :
                        update.diff[1][i].payload = p}) % 2 = 0

\* TargetUpdate::is_definitely_empty
is_definitely_empty(update) ==
    IF update.diff # None
      THEN DiffIsEmpty(update.diff[1])
      ELSE FALSE

\* TargetUpdate::into_update
into_update(update, s) ==
    [serial |-> s,
     set |-> SetFinalize(update.set),
     diff |-> IF update.diff = None
                THEN None
                ELSE Some(DiffFinalize(update.diff[1]))]

PushVrpSetOnly(update, action, payload, refuse) ==
    IF update.diff # None
      THEN LET r == IF action = Announce
                      THEN SetInsert(update.set, payload)
                      ELSE SetRemove(update.set, payload)
           IN  [ok |-> r.ok, upd |-> [set |-> r.set, diff |-> update.diff]]
      ELSE IF action = Withdraw
             THEN [ok |-> FALSE, upd |-> update]
             ELSE LET r == SetInsert(update.set, payload)
                  IN  [ok |-> r.ok, upd |-> [set |-> r.set, diff |-> None]]

PushVrpResetWithdraws(update, action, payload, refuse) ==
    IF update.diff # None
      THEN LET r == IF action = Announce
                      THEN SetInsert(update.set, payload)
                      ELSE SetRemove(update.set, payload)
           IN  IF ~r.ok
                 THEN [ok |-> FALSE, upd |-> update]
                 ELSE LET d == DiffPush(update.diff[1], payload, action,
                                        refuse)
                      IN  [ok |-> d.ok,
                           upd |-> [set |-> r.set, diff |-> Some(d.diff)]]
      ELSE LET r == IF action = Announce
                      THEN SetInsert(update.set, payload)
                      ELSE SetRemove(update.set, payload)
           IN  [ok |-> r.ok, upd |-> [set |-> r.set, diff |-> None]]

PushVrpIgnoresSetError(update, action, payload, refuse) ==
    IF update.diff # None
      THEN LET r == IF action = Announce
                      THEN SetInsert(update.set, payload)
                      ELSE SetRemove(update.set, payload)
               d == DiffPush(update.diff[1], payload, action, refuse)
           IN  [ok |-> d.ok,
                upd |-> [set |-> r.set, diff |-> Some(d.diff)]]
      ELSE IF action = Withdraw
             THEN [ok |-> FALSE, upd |-> update]
             ELSE LET r == SetInsert(update.set, payload)
                  IN  [ok |-> r.ok, upd |-> [set |-> r.set, diff |-> None]]

\* TargetUpdate::push_vrp; refuse is the outcome of the diff builder.
push_vrp(update, action, payload, refuse) ==
    IF update.diff # None
      THEN LET r == IF action = Announce
                      THEN SetInsert(update.set, payload)
                      ELSE SetRemove(update.set, payload)
           IN  IF ~r.ok
                 THEN [ok |-> FALSE, upd |-> update]
                 ELSE LET d == DiffPush(update.diff[1], payload, action,
                                        refuse)
                      IN  [ok |-> d.ok,
                           upd |-> [set |-> r.set, diff |-> Some(d.diff)]]
      ELSE IF action = Withdraw
             THEN [ok |-> FALSE, upd |-> update]
             ELSE LET r == SetInsert(update.set, payload)
                  IN  [ok |-> r.ok, upd |-> [set |-> r.set, diff |-> None]]

\* ------------------------------------------------------------- state
VARIABLES
    pc,            \* position of Tcp::run
    retry,         \* Tcp.retry
    status,        \* Tcp.status
    polled,        \* the pending operation has taken a status from the gate
    serial,        \* Tcp.serial
    current,       \* Target.current
    targetState,   \* Target.state
    clientState,   \* session state held by the protocol engine
    cycle,         \* phase of the update cycle the engine is driving
    acc,           \* the TargetUpdate of the cycle in progress
    events,        \* events push_vrp has accepted in the cycle in progress
    call,          \* the last push_vrp call of the cycle in progress
    gateTerminated,\* the gate reports termination on every poll
    termObserved,  \* a poll of the gate has returned termination
    unitStatus,    \* status of the last gate.update_status call
    nReports,      \* number of gate.update_status calls
    latest,        \* the update of the last gate.update_data call
    published,     \* serials of the gate.update_data calls, in order
    nConnects,     \* connect attempts started
    nCycles,       \* update cycles started
    now,           \* the clock
    end,           \* deadline of the retry wait
    lastSession,   \* state of the most recently established session
    lastError,     \* kind of the error that ended the last session
    result         \* what Tcp::run returned

ctl == <<pc, retry, status, polled, result>>
data == <<serial, current, acc, events, call, cycle, latest, published,
          nCycles>>
sess == <<targetState, clientState, lastSession, lastError>>
gate == <<gateTerminated, termObserved, unitStatus, nReports>>
time == <<nConnects, now, end>>
vars == <<ctl, data, sess, gate, time>>

InitWith(s) ==
    /\ pc = "init"
    /\ retry \in RetryValues
    /\ status = "Active"
    /\ polled = FALSE
    /\ serial = s
    /\ current = {}
    /\ targetState = NoState
    /\ clientState = NoState
    /\ cycle = "none"
    /\ acc = NoUpdate
    /\ events = <<>>
    /\ call = None
    /\ gateTerminated = FALSE
    /\ termObserved = FALSE
    /\ unitStatus = Healthy
    /\ nReports = 0
    /\ latest = None
    /\ published = <<>>
    /\ nConnects = 0
    /\ nCycles = 0
    /\ now = 0
    /\ end = 0
    /\ lastSession = NoState
    /\ lastError = "none"
    /\ result = "none"

Init ==
    InitWith(SerialZero)

\* The unit when its serial has reached 2^32 - 2.
WrapInit ==
    InitWith(SerialNearWrap)

\* gate.update_status(s)
Report(s) ==
    /\ unitStatus' = s
    /\ nReports' = nReports + 1

\* -------------------------------------------------- Tcp::run, prologue
\* Target::new and the first status report (lines 50-53).
RunStart ==
    /\ pc = "init"
    /\ current' = {}
    /\ targetState' = NoState
    /\ Report(Stalled)
    /\ pc' = "connect"
    /\ UNCHANGED <<retry, status, polled, result, serial, acc, events,
                   call, cycle, latest, published, nCycles, clientState,
                   lastSession, lastError, gateTerminated, termObserved,
                   time>>

\* ------------------------------------------------------- Tcp::connect
\* The outer loop calls connect, which creates the transport connect.
ConnectBegin ==
    /\ pc = "connect"
    /\ nConnects < MaxConnects
    /\ nConnects' = nConnects + 1
    /\ lastError' = "none"
    /\ polled' = FALSE
    /\ pc' = "connecting"
    /\ UNCHANGED <<retry, status, result, data, targetState, clientState,
                   lastSession, gate, now, end>>

\* The poll wins with a status: keep the connect pending.
ConnectStatus ==
    /\ pc = "connecting"
    /\ ~gateTerminated
    /\ \E s \in GateStatuses : status' = s
    /\ polled' = TRUE
    /\ UNCHANGED <<pc, retry, result, data, sess, gate, time>>

\* The poll wins with termination: connect returns Err(target), which run
\* handles as a failed connection (lines 61-67).
ConnectTerminated ==
    /\ pc = "connecting"
    /\ gateTerminated
    /\ termObserved' = TRUE
    /\ Report(Stalled)
    /\ end' = now + retry
    /\ polled' = FALSE
    /\ pc' = "waiting"
    /\ UNCHANGED <<retry, status, result, data, sess, gateTerminated,
                   nConnects, now>>

ConnectFailFatal ==
    /\ pc = "connecting"
    /\ ~gateTerminated
    /\ pc' = "returned"
    /\ result' = "Terminated"
    /\ UNCHANGED <<retry, status, polled, data, sess, gate, time>>

\* The transport connect fails.
ConnectFail ==
    /\ pc = "connecting"
    /\ ~gateTerminated
    /\ Report(Stalled)
    /\ end' = now + retry
    /\ polled' = FALSE
    /\ pc' = "waiting"
    /\ UNCHANGED <<retry, status, result, data, sess, gateTerminated,
                   termObserved, nConnects, now>>

\* The transport connect succeeds: the client gets the target's state.
ConnectOk ==
    /\ pc = "connecting"
    /\ ~gateTerminated
    /\ clientState' = targetState
    /\ Report(Healthy)
    /\ pc' = "streaming"
    /\ UNCHANGED <<retry, status, polled, result, data, targetState,
                   lastSession, lastError, gateTerminated, termObserved,
                   time>>

\* -------------------------------------------------------- Tcp::update
\* The inner loop calls update, which creates the engine's update.
UpdateBegin ==
    /\ pc = "streaming"
    /\ nCycles < MaxCycles
    /\ nCycles' = nCycles + 1
    /\ polled' = FALSE
    /\ pc' = "updating"
    /\ UNCHANGED <<retry, status, result, serial, current, acc, events,
                   call, cycle, latest, published, sess, gate, time>>

\* The engine begins the cycle: a reset unless it holds a session state.
CycleStart ==
    /\ pc = "updating"
    /\ ~gateTerminated
    /\ cycle = "none"
    /\ \E reset \in (IF clientState = NoState THEN {TRUE} ELSE BOOLEAN) :
         acc' = start(current, reset)
    /\ events' = <<>>
    /\ call' = None
    /\ cycle' = "open"
    /\ UNCHANGED <<ctl, serial, current, latest, published, nCycles, sess,
                   gate, time>>

\* The engine records one event; an error ends the cycle.
Record ==
    /\ pc = "updating"
    /\ ~gateTerminated
    /\ cycle = "open"
    /\ acc.diff # None => Len(acc.diff[1]) < MaxEvents
    /\ \E action \in Actions, payload \in Payloads, refuse \in BOOLEAN :
         /\ refuse => /\ acc.diff # None
                      /\ DiffMayRefuse(acc.diff[1], payload)
         /\ LET r == push_vrp(acc, action, payload, refuse)
            IN  /\ acc' = r.upd
                /\ cycle' = IF r.ok THEN "open" ELSE "failed"
                /\ events' = IF r.ok
                               THEN Append(events, [action |-> action,
                                                    payload |-> payload])
                               ELSE events
                /\ call' = Some([action |-> action, payload |-> payload])
    /\ UNCHANGED <<ctl, serial, current, latest, published, nCycles, sess,
                   gate, time>>

UpdateStatusRestarts ==
    /\ pc = "updating"
    /\ ~gateTerminated
    /\ \E s \in GateStatuses : status' = s
    /\ polled' = TRUE
    /\ acc' = NoUpdate
    /\ events' = <<>>
    /\ call' = None
    /\ cycle' = "none"
    /\ UNCHANGED <<pc, retry, result, serial, current, latest, published,
                   nCycles, sess, gate, time>>

\* The poll wins with a status: keep the update pending.
UpdateStatus ==
    /\ pc = "updating"
    /\ ~gateTerminated
    /\ \E s \in GateStatuses : status' = s
    /\ polled' = TRUE
    /\ UNCHANGED <<pc, retry, result, data, sess, gate, time>>

\* The poll wins with termination: run returns Err(Terminated).
UpdateTerminated ==
    /\ pc = "updating"
    /\ gateTerminated
    /\ termObserved' = TRUE
    /\ acc' = NoUpdate
    /\ events' = <<>>
    /\ call' = None
    /\ cycle' = "none"
    /\ pc' = "returned"
    /\ result' = "Terminated"
    /\ UNCHANGED <<retry, status, polled, serial, current, latest,
                   published, nCycles, sess, gateTerminated, unitStatus,
                   nReports, time>>

UpdateOkKeepsCurrent ==
    /\ pc = "updating"
    /\ ~gateTerminated
    /\ cycle = "open"
    /\ \E s \in Sessions :
         /\ clientState' = s
         /\ lastSession' = s
    /\ IF ~is_definitely_empty(acc)
         THEN /\ serial' = SerialAdd1(serial)
              /\ current' = current
              /\ latest' = Some(into_update(acc, serial'))
              /\ published' = Append(published, latest'[1].serial)
         ELSE UNCHANGED <<serial, current, latest, published>>
    /\ acc' = NoUpdate
    /\ events' = <<>>
    /\ call' = None
    /\ cycle' = "none"
    /\ pc' = "streaming"
    /\ UNCHANGED <<retry, status, polled, result, nCycles, targetState,
                   lastError, gate, time>>

\* The cycle completes: the update is finalized and published unless it
\* is definitely empty (lines 75-80 and 96-101).
UpdateOk ==
    /\ pc = "updating"
    /\ ~gateTerminated
    /\ cycle = "open"
    /\ \E s \in Sessions :
         /\ clientState' = s
         /\ lastSession' = s
    /\ IF ~is_definitely_empty(acc)
         THEN /\ serial' = SerialAdd1(serial)
              /\ current' = into_update(acc, serial').set
              /\ latest' = Some(into_update(acc, serial'))
              /\ published' = Append(published, latest'[1].serial)
         ELSE UNCHANGED <<serial, current, latest, published>>
    /\ acc' = NoUpdate
    /\ events' = <<>>
    /\ call' = None
    /\ cycle' = "none"
    /\ pc' = "streaming"
    /\ UNCHANGED <<retry, status, polled, result, nCycles, targetState,
                   lastError, gate, time>>

UpdateErrFatal ==
    /\ pc = "updating"
    /\ ~gateTerminated
    /\ \E kind \in ErrKinds :
         /\ cycle = "failed" => kind = "protocol"
         /\ lastError' = kind
         /\ IF kind = "protocol"
              THEN /\ pc' = "returned"
                   /\ result' = "Terminated"
                   /\ UNCHANGED <<unitStatus, nReports, end, polled>>
              ELSE /\ Report(Stalled)
                   /\ end' = now + retry
                   /\ polled' = FALSE
                   /\ pc' = "waiting"
                   /\ UNCHANGED result
    /\ clientState' = NoState
    /\ acc' = NoUpdate
    /\ events' = <<>>
    /\ call' = None
    /\ cycle' = "none"
    /\ UNCHANGED <<retry, status, serial, current, latest, published,
                   nCycles, targetState, lastSession, gateTerminated,
                   termObserved, nConnects, now>>

UpdateErrPublishes ==
    /\ pc = "updating"
    /\ ~gateTerminated
    /\ \E kind \in ErrKinds :
         /\ cycle = "failed" => kind = "protocol"
         /\ lastError' = kind
    /\ IF cycle # "none" /\ ~is_definitely_empty(acc)
         THEN /\ serial' = SerialAdd1(serial)
              /\ current' = into_update(acc, serial').set
              /\ latest' = Some(into_update(acc, serial'))
              /\ published' = Append(published, latest'[1].serial)
         ELSE UNCHANGED <<serial, current, latest, published>>
    /\ clientState' = NoState
    /\ acc' = NoUpdate
    /\ events' = <<>>
    /\ call' = None
    /\ cycle' = "none"
    /\ Report(Stalled)
    /\ end' = now + retry
    /\ polled' = FALSE
    /\ pc' = "waiting"
    /\ UNCHANGED <<retry, status, result, nCycles, targetState,
                   lastSession, gateTerminated, termObserved, nConnects,
                   now>>

\* The update ends in an error of any kind: the session is dropped and
\* the retry wait begins (lines 81-87 and 104-106).
UpdateErr ==
    /\ pc = "updating"
    /\ ~gateTerminated
    /\ \E kind \in ErrKinds :
         /\ cycle = "failed" => kind = "protocol"
         /\ lastError' = kind
    /\ clientState' = NoState
    /\ acc' = NoUpdate
    /\ events' = <<>>
    /\ call' = None
    /\ cycle' = "none"
    /\ Report(Stalled)
    /\ end' = now + retry
    /\ polled' = FALSE
    /\ pc' = "waiting"
    /\ UNCHANGED <<retry, status, result, serial, current, latest,
                   published, nCycles, targetState, lastSession,
                   gateTerminated, termObserved, nConnects, now>>

\* ---------------------------------------------------- Tcp::retry_wait
WaitStatusRestarts ==
    /\ pc = "waiting"
    /\ now < end
    /\ ~gateTerminated
    /\ \E s \in GateStatuses : status' = s
    /\ polled' = TRUE
    /\ end' = now + retry
    /\ UNCHANGED <<pc, retry, result, data, sess, gate, nConnects, now>>

\* A status arrives before the deadline: only the status is stored.
WaitStatus ==
    /\ pc = "waiting"
    /\ now < end
    /\ ~gateTerminated
    /\ \E s \in GateStatuses : status' = s
    /\ polled' = TRUE
    /\ UNCHANGED <<pc, retry, result, data, sess, gate, time>>

WaitTerminatedIgnored ==
    /\ pc = "waiting"
    /\ now < end
    /\ gateTerminated
    /\ termObserved' = TRUE
    /\ pc' = "connect"
    /\ UNCHANGED <<retry, status, polled, result, data, sess,
                   gateTerminated, unitStatus, nReports, time>>

\* Termination arrives before the deadline: run returns Err(Terminated).
WaitTerminated ==
    /\ pc = "waiting"
    /\ now < end
    /\ gateTerminated
    /\ termObserved' = TRUE
    /\ pc' = "returned"
    /\ result' = "Terminated"
    /\ UNCHANGED <<retry, status, polled, data, sess, gateTerminated,
                   unitStatus, nReports, time>>

WaitTimeoutEarly ==
    /\ pc = "waiting"
    /\ pc' = "connect"
    /\ UNCHANGED <<retry, status, polled, result, data, sess, gate, time>>

\* The deadline is reached: the wait returns Ok and the loop goes on.
WaitTimeout ==
    /\ pc = "waiting"
    /\ now >= end
    /\ pc' = "connect"
    /\ UNCHANGED <<retry, status, polled, result, data, sess, gate, time>>

\* -------------------------------------------------------- environment
\* Time passes while the unit is suspended with nothing ready to take.
Tick ==
    /\ pc \in {"connecting", "updating", "waiting"}
    /\ ~gateTerminated
    /\ now < MaxTime
    /\ now' = now + 1
    /\ UNCHANGED <<ctl, data, sess, gate, nConnects, end>>

\* The gate starts to report termination.
Terminate ==
    /\ pc # "returned"
    /\ ~gateTerminated
    /\ gateTerminated' = TRUE
    /\ UNCHANGED <<ctl, data, sess, termObserved, unitStatus, nReports,
                   time>>

Next ==
    \/ RunStart
    \/ ConnectBegin
    \/ ConnectStatus
    \/ ConnectTerminated
    \/ ConnectFail
    \/ ConnectOk
    \/ UpdateBegin
    \/ CycleStart
    \/ Record
    \/ UpdateStatus
    \/ UpdateTerminated
    \/ UpdateOk
    \/ UpdateErr
    \/ WaitStatus
    \/ WaitTerminated
    \/ WaitTimeout
    \/ Tick
    \/ Terminate

Spec ==
    Init /\ [][Next]_vars

WrapSpec ==
    WrapInit /\ [][Next]_vars

\* The unit is a task of the runtime: it is resumed when its timer has
\* fired, it goes on with its loop, and time passes.
LiveSpec ==
    /\ Init
    /\ [][Next]_vars
    /\ WF_vars(WaitTimeout)
    /\ WF_vars(ConnectBegin)
    /\ WF_vars(Tick)

\* ------------------------------------------------------------- claims
\* The serial carried by the update published before the i-th one.
SerialBefore(i) ==
    IF i = 1 THEN SerialZero ELSE published[i - 1]

\* C1: every published update carries the serial of the previous one plus
\* one (the first carries the initial serial plus one), an update is
\* published alone and at the end of its cycle, and the serial changes
\* only when an update is published.
C1SerialAdvancesByOne ==
    /\ [](\A i \in 1..Len(published) : IsNext(SerialBefore(i), published[i]))
    /\ [](serial = IF published = <<>>
                     THEN SerialZero
                     ELSE published[Len(published)])
    /\ [][published' # published =>
            /\ published' = Append(published, serial')
            /\ pc = "updating" /\ cycle = "open"
            /\ pc' = "streaming" /\ cycle' = "none"]_vars
    /\ [][published' = published => serial' = serial]_vars

C1Witness ==
    /\ Len(published) = 2
    /\ nConnects = 2
    /\ nCycles = 2

\* C2: once a session has been established and lost, the target holds
\* the state of that session, and the client made by the next connect
\* starts from it.
C2SessionStateCarried ==
    /\ (lastSession # NoState /\ pc \in {"waiting", "connect", "connecting"})
         => targetState = lastSession
    /\ (lastSession # NoState /\ pc = "streaming")
         => clientState = lastSession

\* C3: when the gate reports termination to a pending connect, run returns
\* the termination result in that step, without a status report, a retry
\* wait or a further connect attempt.
C3ConnectTerminationIsFatal ==
    [][(pc = "connecting" /\ ~termObserved /\ termObserved') =>
          /\ pc' = "returned"
          /\ result' = "Terminated"
          /\ nReports' = nReports
          /\ nConnects' = nConnects]_vars

\* C4 as stated: a protocol error reported by the engine during an update
\* makes run return the termination result.
C4ProtocolErrorIsFatal ==
    [][(pc = "updating" /\ lastError' = "protocol") =>
          /\ pc' = "returned"
          /\ result' = "Terminated"
          /\ nReports' = nReports]_vars

\* C4 as amended: an error of any kind reported by the engine during an
\* update drops the session, reports Stalled and starts the retry wait;
\* run leaves streaming with the termination result only when the gate
\* has reported termination.
C4UpdateErrorsRetry ==
    /\ [][(pc = "updating" /\ lastError' # lastError) =>
            /\ lastError' \in ErrKinds
            /\ pc' = "waiting"
            /\ unitStatus' = Stalled
            /\ nReports' = nReports + 1
            /\ end' = now + retry
            /\ result' = "none"
            /\ clientState' = NoState]_vars
    /\ [][(pc \in {"streaming", "updating"} /\ pc' = "returned") =>
            /\ gateTerminated
            /\ termObserved'
            /\ result' = "Terminated"
            /\ lastError' = "none"]_vars

C4Witness ==
    /\ pc = "waiting"
    /\ lastError = "protocol"
    /\ result = "none"
    /\ unitStatus = Stalled

\* C5: once the gate has reported termination to the unit, no connect
\* attempt is started and run has returned the termination result as soon
\* as the unit is back at the top of its loop.
C5TerminationAborts ==
    /\ [][termObserved => nConnects' = nConnects]_vars
    /\ [](termObserved => pc \notin {"connect", "connecting", "streaming"})

\* C6: the retry wait has the one deadline set when it starts (start plus
\* retry); a status taken during the wait changes the status only; the
\* wait does not end, and no connect is started, before the deadline.
C6WaitDeadlineFixed ==
    /\ [][(pc # "waiting" /\ pc' = "waiting") =>
            (end' = now + retry /\ now' = now)]_vars
    /\ [][(pc = "waiting" /\ pc' = "waiting") => end' = end]_vars
    /\ [][(pc = "waiting" /\ status' # status) =>
            UNCHANGED <<pc, retry, result, data, sess, gate, time>>]_vars
    /\ [][(pc = "waiting" /\ pc' = "connect") => now >= end]_vars
    /\ [][nConnects' # nConnects => now >= end]_vars

C6Witness ==
    /\ pc = "connect"
    /\ retry = 2
    /\ polled
    /\ nConnects = 1
    /\ now = end

\* C7: termination taken during the retry wait ends the wait before the
\* deadline and run returns the termination result, after which nothing
\* happens; a wait that reaches its deadline ends with run going on, and
\* the next step of run is one connect attempt.
C7WaitOutcomes ==
    /\ [][(pc = "waiting" /\ pc' = "returned") =>
            /\ now < end
            /\ gateTerminated
            /\ termObserved'
            /\ result' = "Terminated"
            /\ nConnects' = nConnects]_vars
    /\ [][(pc = "waiting" /\ gateTerminated /\ now < end) =>
            pc' = "returned"]_vars
    /\ [][pc = "returned" => UNCHANGED vars]_vars
    /\ [][(pc = "waiting" /\ pc' # "waiting" /\ pc' # "returned") =>
            (now >= end /\ pc' = "connect" /\ result' = "none"
               /\ nConnects' = nConnects)]_vars
    /\ [][(pc = "connect" /\ pc' # "connect") =>
            (pc' = "connecting" /\ nConnects' = nConnects + 1)]_vars

C7Witness ==
    /\ pc = "returned"
    /\ result = "Terminated"
    /\ now < end
    /\ nConnects >= 1

\* C8: a reset cycle that completes is published, with no diff and with
\* exactly the records announced in the cycle as its set.
C8ResetAlwaysPublished ==
    /\ []((cycle = "open" /\ acc.diff = None) =>
            /\ acc.set = {events[i].payload : i \in 1..Len(events)}
            /\ \A i \in 1..Len(events) : events[i].action = Announce)
    /\ [][(pc = "updating" /\ cycle = "open" /\ acc.diff = None
             /\ pc' = "streaming") =>
            /\ published' = Append(published, serial')
            /\ serial' # serial
            /\ latest' = Some([serial |-> serial',
                               set |-> {events[i].payload :
                                          i \in 1..Len(events)},
                               diff |-> None])
            /\ current' = latest'[1].set]_vars

C8Witness ==
    /\ Len(published) = 2
    /\ latest # None
    /\ latest[1].diff = None
    /\ latest[1].set = {}
    /\ nConnects = 1

\* C9: an incremental cycle that completes with an empty diff is not
\* published and leaves the serial and the current set as they were.
C9EmptyIncrementalSkipped ==
    [][(pc = "updating" /\ cycle = "open" /\ acc.diff = Some(<<>>)
          /\ pc' = "streaming") =>
         UNCHANGED <<serial, current, latest, published>>]_vars

C9Witness ==
    /\ pc = "streaming"
    /\ nConnects = 1
    /\ nCycles = 2
    /\ Len(published) = 1
    /\ current # {}

\* The set after the events have been applied to it in order.
RECURSIVE ApplyAll(_, _)
ApplyAll(set, evs) ==
    IF evs = <<>>
      THEN set
      ELSE ApplyAll(IF Head(evs).action = Announce
                      THEN set \cup {Head(evs).payload}
                      ELSE set \ {Head(evs).payload},
                    Tail(evs))

\* C10: in an incremental cycle the set being built is the current set
\* with the accepted events applied in order and the diff is the sequence
\* of accepted events; the published update carries that set and diff.
C10IncrementalSetAndDiff ==
    /\ []((cycle = "open" /\ acc.diff # None) =>
            /\ acc.set = ApplyAll(current, events)
            /\ acc.diff = Some(events))
    /\ [][(pc = "updating" /\ cycle = "open" /\ acc.diff # None
             /\ published' # published) =>
            /\ latest'[1].set = ApplyAll(current, events)
            /\ latest'[1].diff = Some(events)
            /\ events # <<>>]_vars

C10Witness ==
    /\ latest # None
    /\ latest[1].diff = Some(<<[action |-> Withdraw, payload |-> "A"],
                               [action |-> Announce, payload |-> "B"]>>)
    /\ latest[1].set = {"B"}

\* A step in which the engine calls push_vrp.
RecordStep ==
    /\ pc = "updating"
    /\ cycle = "open"
    /\ pc' = "updating"
    /\ call' # None
    /\ (events' # events \/ cycle' = "failed")

\* C11: in a reset cycle a Withdraw, of a record the set builder holds or
\* not, is refused with an error and leaves the set builder as it was; an
\* Announce of a record the set builder does not hold is accepted.
C11ResetRefusesWithdraw ==
    /\ [][(RecordStep /\ acc.diff = None /\ call'[1].action = Withdraw) =>
            /\ cycle' = "failed"
            /\ acc' = acc
            /\ events' = events]_vars
    /\ [][(RecordStep /\ acc.diff = None /\ call'[1].action = Announce
             /\ call'[1].payload \notin acc.set) =>
            /\ cycle' = "open"
            /\ acc'.set = acc.set \cup {call'[1].payload}]_vars

C11Witness ==
    /\ cycle = "failed"
    /\ acc.diff = None
    /\ call = Some([action |-> Withdraw, payload |-> "A"])
    /\ acc.set = {"A"}

\* C12: in an incremental cycle a Withdraw of a record the set builder
\* does not hold at that moment is refused with an error.
C12WithdrawAbsentRefused ==
    [][(RecordStep /\ acc.diff # None /\ call'[1].action = Withdraw
          /\ call'[1].payload \notin acc.set) =>
         /\ cycle' = "failed"
         /\ events' = events]_vars

C12Witness ==
    /\ cycle = "failed"
    /\ acc.diff = Some(<<[action |-> Withdraw, payload |-> "A"]>>)
    /\ call = Some([action |-> Withdraw, payload |-> "A"])
    /\ "A" \notin acc.set

\* C13: a cycle that ends without completing (an error of the engine or
\* termination by the gate) publishes nothing and leaves the serial and
\* the current set as they were; so does every step inside a cycle.
C13FailedCyclePublishesNothing ==
    /\ [][(pc = "updating" /\ pc' \in {"waiting", "returned"}) =>
            UNCHANGED <<serial, current, latest, published>>]_vars
    /\ [][(pc = "updating" /\ pc' = "updating") =>
            UNCHANGED <<serial, current, latest, published>>]_vars
    /\ [][published' # published => (cycle = "open" /\ pc' = "streaming")]_vars

C13Witness ==
    /\ pc = "waiting"
    /\ lastError = "protocol"
    /\ nCycles = 2
    /\ nConnects = 1
    /\ Len(published) = 1
    /\ current = {"A"}

\* C14: a failed connect and an update that ends in an I/O error or a
\* disconnect start the retry wait and do not make run return; run returns
\* only after the gate has reported termination; and from the retry wait,
\* unless the gate reports termination, a connect attempt is eventually
\* started (as long as the model's caps on attempts and time allow one).
C14FailuresLeadToReconnect ==
    /\ [][(pc = "connecting" /\ ~gateTerminated
             /\ pc' \notin {pc, "streaming"})
            => (pc' = "waiting" /\ result' = "none")]_vars
    /\ [][(pc = "updating" /\ lastError' \in {"io", "closed"}) =>
            (pc' = "waiting" /\ result' = "none")]_vars
    /\ [][(pc # "returned" /\ pc' = "returned") => gateTerminated]_vars
    /\ ((pc = "waiting" /\ nConnects < MaxConnects /\ end <= MaxTime)
          ~> (pc = "connecting" \/ gateTerminated))

C14Witness ==
    /\ pc = "connecting"
    /\ nConnects = 3
    /\ lastSession # NoState
    /\ now >= retry
    /\ retry > 0
    /\ ~gateTerminated

\* The status reports follow the connection: Healthy is reported when,
\* and only when, a connect succeeds; Stalled is reported when a connect
\* fails and when a session is lost, before the retry wait, so that the
\* last report is Stalled throughout the wait.
StatusFollowsConnection ==
    /\ [][nReports' # nReports => nReports' = nReports + 1]_vars
    /\ [][(nReports' # nReports /\ unitStatus' = Healthy) =>
            (pc = "connecting" /\ pc' = "streaming")]_vars
    /\ [][(pc = "connecting" /\ pc' = "streaming") =>
            (nReports' = nReports + 1 /\ unitStatus' = Healthy)]_vars
    /\ [][(pc \in {"connecting", "updating"} /\ pc' = "waiting") =>
            (nReports' = nReports + 1 /\ unitStatus' = Stalled)]_vars
    /\ [](pc = "waiting" => unitStatus = Stalled)

\* C15 as stated: the status reports follow the connection, and while
\* every connect so far has failed, the attempt after n failures starts
\* at time n * retry.
C15AttemptsAtExactTimes ==
    /\ StatusFollowsConnection
    /\ [][(nConnects' # nConnects /\ nCycles = 0) =>
            now = nConnects * retry]_vars

\* C15 as amended: the status reports follow the connection, and while
\* every connect so far has failed, the attempt after n failures starts
\* no earlier than time n * retry.
C15AttemptsNotBefore ==
    /\ StatusFollowsConnection
    /\ [][(nConnects' # nConnects /\ nCycles = 0) =>
            now >= nConnects * retry]_vars

C15Witness ==
    /\ pc = "connecting"
    /\ nConnects = 3
    /\ nCycles = 0
    /\ retry = 1
    /\ now = 2
    /\ unitStatus = Stalled
    /\ nReports = 3
    /\ ~termObserved

\* a is a smaller number than b.
SerialLess(a, b) ==
    \/ a.hi < b.hi
    \/ a.hi = b.hi /\ a.lo < b.lo

\* b is a + 1 modulo 2^32.
WrapNext(a, b) ==
    \/ IsNext(a, b)
    \/ a = SerialMax /\ b = SerialZero

\* C16 as stated: every published update carries a serial greater than
\* the serials of all updates published before it (and so no serial is
\* carried twice), also when the counter passes its largest value.
C16SerialsAlwaysIncrease ==
    \A i \in 1..Len(published) :
        /\ SerialLess(SerialNearWrap, published[i])
        /\ \A j \in 1..(i - 1) : SerialLess(published[j], published[i])

\* C16 as amended: every published update carries the serial of the
\* previous one plus one modulo 2^32, so the serial after 2^32 - 1 is 0,
\* and the updates published in a row (fewer than 2^32) carry different
\* serials.
C16SerialsAdvanceModulo ==
    \A i \in 1..Len(published) :
        /\ WrapNext(IF i = 1 THEN SerialNearWrap ELSE published[i - 1],
                    published[i])
        /\ \A j \in 1..(i - 1) : published[j] # published[i]

C16Witness ==
    /\ published = <<SerialMax, SerialZero>>
    /\ serial = SerialZero
    /\ latest[1].serial = SerialZero

\* A step in which a pending connect or update takes a status from the
\* gate.
StatusStep ==
    /\ pc \in {"connecting", "updating"}
    /\ pc' = pc
    /\ (status' # status \/ polled' # polled)

\* C17: a status taken from the gate by a pending connect or update is
\* stored and leaves the pending operation as it is: no connect and no
\* update is started by it and the progress of the update is kept; one
\* connect is started per call of connect and one update per call of
\* update, and the call ends with the outcome of that operation.
C17StatusKeepsOperationPending ==
    /\ [][StatusStep =>
            /\ polled'
            /\ status' \in GateStatuses
            /\ UNCHANGED <<retry, result, data, sess, gate, time>>]_vars
    /\ [][nConnects' # nConnects =>
            /\ pc = "connect" /\ pc' = "connecting"
            /\ nConnects' = nConnects + 1
            /\ ~polled']_vars
    /\ [][nCycles' # nCycles =>
            /\ pc = "streaming" /\ pc' = "updating"
            /\ nCycles' = nCycles + 1
            /\ ~polled']_vars
    /\ [][(pc = "connecting" /\ pc' # pc) => nConnects' = nConnects]_vars
    /\ [][(pc = "updating" /\ pc' # pc) => nCycles' = nCycles]_vars

C17Witness ==
    /\ pc = "streaming"
    /\ polled
    /\ status = "Dormant"
    /\ nConnects = 1
    /\ nCycles = 1
    /\ Len(published) = 1
    /\ latest[1].set = {"A", "B"}

\* C18: the current set of the target is the set of the update published
\* last, or empty when none has been published; it changes only in the
\* step that publishes, and not when the engine records an event.
C18CurrentIsLastPublished ==
    /\ [](current = IF latest = None THEN {} ELSE latest[1].set)
    /\ [][current' # current => published' # published]_vars
    /\ [][acc' # acc /\ pc' = "updating" => current' = current]_vars

C18Witness ==
    /\ pc = "updating"
    /\ cycle = "open"
    /\ nConnects = 2
    /\ current = {"A"}
    /\ acc.set = {"B"}
    /\ latest # None

\* C19: an incremental cycle that completes is published exactly when its
\* diff holds at least one event, whether or not the set changed; a cycle
\* whose events cancel out is published under the next serial with the set
\* the target already had.
C19PublishedIffDiffNonEmpty ==
    [][(/\ pc = "updating"
        /\ cycle = "open"
        /\ acc.diff # None
        /\ pc' = "streaming")
       => /\ (published' # published) <=> (acc.diff[1] # <<>>)
          /\ acc.diff[1] # <<>>
               => /\ serial' = SerialAdd1(serial)
                  /\ published' = Append(published, serial')
                  /\ latest' = Some([serial |-> serial',
                                     set |-> acc.set,
                                     diff |-> acc.diff])
                  /\ current' = acc.set
          /\ acc.diff[1] = <<>>
               => UNCHANGED <<serial, current, latest, published>>]_vars

C19Witness ==
    /\ pc = "streaming"
    /\ Len(published) = 2
    /\ current = {"B"}
    /\ latest # None
    /\ latest[1].set = {"B"}
    /\ latest[1].diff = Some(<<[action |-> Announce, payload |-> "A"],
                               [action |-> Withdraw, payload |-> "A"]>>)

\* C20: a call of push_vrp that returns an error leaves the accumulator as
\* it was: the set builder and the diff builder hold what they held before
\* the call.
C20FailedRecordLeavesAccumulator ==
    [][(RecordStep /\ cycle' = "failed") => acc' = acc]_vars

====
